---- MODULE Spec2Model ----
(***************************************************************************)
(* Stack usage of pure and boxed recursion (src/src/main.rs).              *)
(*                                                                         *)
(* The program builds countdown chains on the heap (the builders), walks   *)
(* a counter or a chain with a recursive evaluator that samples            *)
(* remaining_stack() once per call, reduces the samples with               *)
(* analyze_stack and prints one line per trial (run_one_case, main).       *)
(*                                                                         *)
(* Three specifications share the variables:                               *)
(*   SpecBuild    one builder call, its argument drawn from bounded sets;  *)
(*   SpecAnalyze  one analyze_stack call on a drawn sample sequence;       *)
(*   Spec         the driver: run_one_case(n) or main, trial by trial.     *)
(***************************************************************************)
EXTENDS Integers, Sequences, FiniteSets, TLC

VARIABLES
    entry,       \* which function runs: "run_one_case", "main", "builder", "analyzer"
    n,           \* run_one_case's argument n: u64
    probe,       \* TRUE iff remaining_stack() returns Some on this platform
    stack_size,  \* the bytes of stack the thread may use before its guard page
    drop_cost,   \* the bytes of stack one level of the chain's drop glue takes
    trial,       \* index of the trial in the driver's fixed sequence
    pc,          \* position inside the trial
    call,        \* the trial being run: [label, kind, strategy, depth]
    current,     \* the builder's local `current`
    iter,        \* the builder's loop iterator (a RangeInclusive)
    heap,        \* the Box allocations, heap[a] is the node at address a
    fact,        \* the chain the builder returned (the head node)
    frames,      \* the active calls (builder, evaluator or drop glue), outermost first
    arg,         \* the argument of the evaluator call about to be made
    stack_info,  \* the samples pushed so far
    s,           \* the pure string trial's buffer
    out,         \* the boxed string trial's buffer
    result,      \* what the last catch_unwind returned
    summary,     \* what the last analyze_stack returned
    output       \* the lines printed so far

vars == <<entry, n, probe, stack_size, drop_cost, trial, pc, call, current, iter, heap,
          fact, frames, arg, stack_info, s, out, result, summary, output>>

(***************************************************************************)
(* Bounds of the model.                                                    *)
(***************************************************************************)
\* run_one_case is explored for n in 0..MaxDepth and U8Modulus..U8Modulus+MaxWrap
MaxDepth == 5
MaxWrap == 1
\* the builders are explored for n in 0..MaxBuild (and 255 for the narrow kind)
MaxBuild == 6
\* the thread's stack is StackSize, StackSize + StackStep or StackSize + 2 * StackStep bytes
StackSize == 8000
StackStep == 250
\* one level of the chain's drop glue takes DropCost or DropCost + DropCostStep bytes
DropCost == 48
DropCostStep == 48
\* main's literal depths are kept in units of DepthScale recursion levels
DepthScale == 1000
\* analyze_stack is explored on sequences of up to MaxSamples readings in 0..MaxReading
MaxSamples == 3
MaxReading == 3

(***************************************************************************)
(* Integer widths: `n as u8` keeps the low 8 bits; u64 -> u128 widens.     *)
(***************************************************************************)
U8Modulus == 256
U8Max == U8Modulus - 1

as_u8(x) == x % U8Modulus


(***************************************************************************)
(* format!("{}-", n): the decimal digits of n, most significant first,     *)
(* followed by '-'.  Text is a sequence of characters.                     *)
(***************************************************************************)
Digits == <<"0", "1", "2", "3", "4", "5", "6", "7", "8", "9">>

RECURSIVE Decimal(_)
Decimal(x) == IF x < 10 THEN <<Digits[x + 1]>>
              ELSE Decimal(x \div 10) \o <<Digits[(x % 10) + 1]>>

format_label(x) == Decimal(x) \o <<"-">>

(***************************************************************************)
(* enum BoxedFact<T> / enum BoxedString.  A Box is an address into heap;   *)
(* Done has no rest (address 0 is no address).                             *)
(***************************************************************************)
NoNode == [tag |-> "None", payload |-> 0, rest |-> 0]

BoxedNext(p, r) == [tag |-> "Next", payload |-> p, rest |-> r]

BoxedDone(p) == [tag |-> "Done", payload |-> p, rest |-> 0]

(***************************************************************************)
(* 1..=n and (1..=n).rev(): Rust's RangeInclusive keeps start, end and an  *)
(* exhausted flag, so that the last element is yielded without stepping    *)
(* past the end of the type.  Next yields from the front, NextBack from    *)
(* the back; each returns [some, value, it].                               *)
(***************************************************************************)
RangeInclusive(a, b, rev) == [start |-> a, end |-> b, exhausted |-> FALSE, rev |-> rev]

RangeEmpty(it) == it.exhausted \/ it.start > it.end

\* the loop of a C-style `for (i = 1; i <= n; i++)` on the argument's type:
\* the step wraps at the width of the narrow type
RangeNextWrapping(it) ==
    IF it.start > it.end THEN [some |-> FALSE, value |-> 0, it |-> it]
    ELSE [some |-> TRUE, value |-> it.start,
          it |-> [it EXCEPT !.start = IF it.start = U8Max THEN 0 ELSE it.start + 1]]

RangeNextFront(it) ==
    IF RangeEmpty(it) THEN [some |-> FALSE, value |-> 0, it |-> it]
    ELSE IF it.start < it.end
         THEN [some |-> TRUE, value |-> it.start,
               it |-> [it EXCEPT !.start = it.start + 1]]
         ELSE [some |-> TRUE, value |-> it.start,
               it |-> [it EXCEPT !.exhausted = TRUE]]

RangeNextBack(it) ==
    IF RangeEmpty(it) THEN [some |-> FALSE, value |-> 0, it |-> it]
    ELSE IF it.start < it.end
         THEN [some |-> TRUE, value |-> it.end,
               it |-> [it EXCEPT !.end = it.end - 1]]
         ELSE [some |-> TRUE, value |-> it.end,
               it |-> [it EXCEPT !.exhausted = TRUE]]

RangeNext(it) == IF it.rev THEN RangeNextBack(it) ELSE RangeNextFront(it)

(***************************************************************************)
(* The builders.  make_boxed_fact_u8/u64/u128 are the same text at three   *)
(* widths; make_boxed_string differs in the payload and in the loop.       *)
(***************************************************************************)
\* let mut current = BoxedFact::Done(1);
fact_base == 1

\* let mut current = BoxedString::Done(format!("{}-", 0));
string_base == format_label(0)

\* a builder that wraps from n down to 1, as make_boxed_string does
fact_range_rev(d) == RangeInclusive(1, d, TRUE)

\* for i in 1..=n       (make_boxed_fact_u8, _u64, _u128)
fact_range(d) == RangeInclusive(1, d, FALSE)

\* for i in (1..=n).rev()   (make_boxed_string)
string_range(d) == RangeInclusive(1, d, TRUE)

\* the payload of the node wrapped at index i
NodePayload(kind, i) == IF kind = "string" THEN format_label(i) ELSE i

\* a builder that wraps the rest of the chain in a call to itself
frames_after_recursive_wrap(fs) == Append(fs, 0)

\* the calls active after one iteration: Box::new has returned and the
\* builder has made no call to itself
frames_after_wrap(fs) == fs

\* the first statement of a builder; its frame holds the argument n
make_boxed_entry ==
    /\ pc = "build_entry"
    /\ current' = IF call.kind = "string" THEN BoxedDone(string_base)
                  ELSE BoxedDone(fact_base)
    /\ iter' = IF call.kind = "string" THEN string_range(call.depth)
               ELSE fact_range(call.depth)
    /\ heap' = <<>>
    /\ frames' = Append(frames, call.depth)
    /\ pc' = "build_loop"
    /\ UNCHANGED <<entry, n, probe, stack_size, drop_cost, trial, call, fact, arg,
                   stack_info, s, out, result, summary, output>>

\* one iteration: current = Next(i, Box::new(current))
make_boxed_loop ==
    /\ pc = "build_loop"
    /\ RangeNext(iter).some
    /\ heap' = Append(heap, current)
    /\ current' = BoxedNext(NodePayload(call.kind, RangeNext(iter).value),
                            Len(heap) + 1)
    /\ iter' = RangeNext(iter).it
    /\ frames' = frames_after_wrap(frames)
    /\ UNCHANGED <<entry, n, probe, stack_size, drop_cost, trial, pc, call, fact, arg,
                   stack_info, s, out, result, summary, output>>

\* the iterator is exhausted: the builder returns current, catch_unwind Ok
make_boxed_return ==
    /\ pc = "build_loop"
    /\ ~RangeNext(iter).some
    /\ fact' = current
    /\ current' = NoNode
    /\ result' = "Ok"
    /\ frames' = SubSeq(frames, 1, Len(frames) - 1)
    /\ pc' = "built"
    /\ UNCHANGED <<entry, n, probe, stack_size, drop_cost, trial, call, iter, heap, arg,
                   stack_info, s, out, summary, output>>

(***************************************************************************)
(* Reading a chain: Deref follows a reference (0 is the head, a > 0 is a   *)
(* Box), Chain lists the nodes from the head along the rest links.         *)
(***************************************************************************)
Deref(r) == IF r = 0 THEN fact ELSE heap[r]

\* the reference reached from r by following k rest links (Nil past Done);
\* the walk is evaluated by halves to keep the evaluation shallow
Nil == 0 - 1

Follow(r) == IF r = Nil \/ Deref(r).tag # "Next" THEN Nil ELSE Deref(r).rest

RECURSIVE Walk(_, _)
Walk(r, k) ==
    IF k = 0 THEN r
    ELSE IF k = 1 THEN Follow(r)
    ELSE LET mid == Walk(r, k \div 2)
         IN  IF mid = Nil THEN Nil ELSE Walk(mid, k - (k \div 2))

ChainLen == Cardinality({k \in 0..Len(heap) : Walk(0, k) # Nil})

Chain == [k \in 1..ChainLen |-> Deref(Walk(0, k - 1))]

ChainPayloads == [k \in 1..ChainLen |-> Deref(Walk(0, k - 1)).payload]

(***************************************************************************)
(* The stack.  Every active evaluator call holds one frame; the bytes per  *)
(* frame are the ones the source records for each evaluator.  A call that  *)
(* does not fit hits the guard page: the runtime's handler aborts the      *)
(* process, which is not a panic and is not caught by catch_unwind.        *)
(***************************************************************************)
FrameCost(c) ==
    IF c.strategy = "pure"
    THEN (IF c.kind = "string" THEN 256 ELSE IF c.kind = "u128" THEN 112 ELSE 80)
    ELSE (IF c.kind = "string" THEN 112 ELSE 80)

HasStack == (Len(frames) + 1) * FrameCost(call) <= stack_size

\* stacker::remaining_stack() inside the call at the given depth
remaining_stack(depth) ==
    IF probe THEN [some |-> TRUE, rem |-> stack_size - depth * FrameCost(call)]
    ELSE [some |-> FALSE, rem |-> 0]

\* a call that pushes its reading twice
Sampled_twice(depth) ==
    IF remaining_stack(depth).some
    THEN Append(Append(stack_info, remaining_stack(depth).rem), remaining_stack(depth).rem)
    ELSE stack_info

\* if let Some(rem) = remaining_stack() { stack_info.push(rem); }
Sampled(depth) ==
    IF remaining_stack(depth).some
    THEN Append(stack_info, remaining_stack(depth).rem)
    ELSE stack_info

(***************************************************************************)
(* The evaluators: one action is one call, from its entry to its recursive *)
(* call (or to its last statement at the base case).                       *)
(***************************************************************************)
\* simple_factorial_tracked_u8 / _u64 / _u128
simple_factorial_tracked ==
    /\ pc = "call"
    /\ call.strategy = "pure"
    /\ call.kind # "string"
    /\ HasStack
    /\ frames' = Append(frames, arg)
    /\ stack_info' = Sampled(Len(frames) + 1)
    /\ IF arg > 0
       THEN arg' = arg - 1 /\ pc' = "call"
       ELSE arg' = arg /\ pc' = "ret"
    /\ UNCHANGED <<entry, n, probe, stack_size, drop_cost, trial, call, current, iter, heap, fact,
                   s, out, result, summary, output>>

simple_string_tracked ==
    /\ pc = "call"
    /\ call.strategy = "pure"
    /\ call.kind = "string"
    /\ HasStack
    /\ frames' = Append(frames, arg)
    /\ stack_info' = Sampled(Len(frames) + 1)
    /\ s' = s \o format_label(arg)
    /\ IF arg > 0
       THEN arg' = arg - 1 /\ pc' = "call"
       ELSE arg' = arg /\ pc' = "ret"
    /\ UNCHANGED <<entry, n, probe, stack_size, drop_cost, trial, call, current, iter, heap, fact,
                   out, result, summary, output>>

eval_boxed_fact_tracked ==
    /\ pc = "call"
    /\ call.strategy = "boxed"
    /\ call.kind # "string"
    /\ HasStack
    /\ frames' = Append(frames, arg)
    /\ stack_info' = Sampled(Len(frames) + 1)
    /\ IF Deref(arg).tag = "Next"
       THEN arg' = Deref(arg).rest /\ pc' = "call"
       ELSE arg' = arg /\ pc' = "ret"
    /\ UNCHANGED <<entry, n, probe, stack_size, drop_cost, trial, call, current, iter, heap, fact,
                   s, out, result, summary, output>>

eval_boxed_string_tracked ==
    /\ pc = "call"
    /\ call.strategy = "boxed"
    /\ call.kind = "string"
    /\ HasStack
    /\ frames' = Append(frames, arg)
    /\ stack_info' = Sampled(Len(frames) + 1)
    /\ out' = out \o Deref(arg).payload
    /\ IF Deref(arg).tag = "Next"
       THEN arg' = Deref(arg).rest /\ pc' = "call"
       ELSE arg' = arg /\ pc' = "ret"
    /\ UNCHANGED <<entry, n, probe, stack_size, drop_cost, trial, call, current, iter, heap, fact,
                   s, result, summary, output>>

\* a call returns to its caller; the outermost returns to catch_unwind: Ok
eval_return ==
    /\ pc = "ret"
    /\ frames' = SubSeq(frames, 1, Len(frames) - 1)
    /\ IF Len(frames) = 1
       THEN pc' = "caught" /\ result' = "Ok"
       ELSE pc' = "ret" /\ result' = result
    /\ UNCHANGED <<entry, n, probe, stack_size, drop_cost, trial, call, current, iter, heap, fact,
                   arg, stack_info, s, out, summary, output>>

\* the next call does not fit the stack: the process is aborted
stack_overflow ==
    /\ pc = "call"
    /\ ~HasStack
    /\ pc' = "aborted"
    /\ UNCHANGED <<entry, n, probe, stack_size, drop_cost, trial, call, current, iter, heap, fact,
                   frames, arg, stack_info, s, out, result, summary, output>>

(***************************************************************************)
(* analyze_stack.  per_level is the quotient used / len, kept as the pair  *)
(* of its numerator and denominator.                                       *)
(***************************************************************************)
None == [some |-> FALSE]

saturating_sub(a, b) == IF a >= b THEN a - b ELSE 0

\* the last reading instead of the smallest
stack_last(samples) == samples[Len(samples)]

\* the smallest of samples[lo..hi]; the fold of iter().min() is evaluated by
\* halves (min is associative) to keep the evaluation shallow
RECURSIVE MinBetween(_, _, _)
MinBetween(samples, lo, hi) ==
    IF lo >= hi THEN samples[lo]
    ELSE LET mid == (lo + hi) \div 2
             a == MinBetween(samples, lo, mid)
             b == MinBetween(samples, mid + 1, hi)
         IN  IF b < a THEN b ELSE a

\* *stack_info.iter().min().unwrap_or(&start)
stack_min(samples) == MinBetween(samples, 1, Len(samples))

\* an off-by-one in the length test
too_few_le(samples) == Len(samples) <= 2

\* if stack_info.len() < 2 { return None; }
too_few(samples) == Len(samples) < 2

\* used as f64 / stack_info.len() as f64
per_level_of(used, samples) == [num |-> used, den |-> Len(samples)]

analyze_stack(samples) ==
    IF too_few(samples) THEN None
    ELSE LET start == samples[1]
             end == stack_min(samples)
             used == saturating_sub(start, end)
         IN  [some |-> TRUE, used |-> used, per_level |-> per_level_of(used, samples)]

(***************************************************************************)
(* The driver.  run_one_case(n) runs eight trials in a fixed order; main   *)
(* runs eight isolated tests at literal depths.  The literal depths are    *)
(* kept in units of DepthScale levels.                                     *)
(***************************************************************************)
test_depth == 70000 \div DepthScale

high_depth == 90000 \div DepthScale

extreme_depth == 100000 \div DepthScale

string_depth == 10000 \div DepthScale

high_string_depth == 32000 \div DepthScale

Trial(label, kind, strategy, depth) ==
    [label |-> label, kind |-> kind, strategy |-> strategy, depth |-> depth]

run_one_case_trials(x) ==
    << Trial("simple(u8)", "u8", "pure", as_u8(x)),
       Trial("simple(u64)", "u64", "pure", x),
       Trial("simple(u128)", "u128", "pure", x),
       Trial("boxed(u8)", "u8", "boxed", as_u8(x)),
       Trial("boxed(u64)", "u64", "boxed", x),
       Trial("boxed(u128)", "u128", "boxed", x),
       Trial("string(pure)", "string", "pure", x),
       Trial("string(boxed)", "string", "boxed", x) >>

main_trials ==
    << Trial("simple(u128)", "u128", "pure", test_depth),
       Trial("boxed(u128)", "u128", "boxed", test_depth),
       Trial("boxed(u128)", "u128", "boxed", high_depth),
       Trial("boxed(u128)", "u128", "boxed", extreme_depth),
       Trial("string(pure)", "string", "pure", string_depth),
       Trial("string(boxed)", "string", "boxed", string_depth),
       Trial("string(pure)", "string", "pure", high_string_depth),
       Trial("string(boxed)", "string", "boxed", high_string_depth) >>

Trials == IF entry = "main" THEN main_trials ELSE run_one_case_trials(n)

Line(outcome) == [trial |-> trial, label |-> call.label, outcome |-> outcome]

\* a pure trial: fresh samples (and buffer), then catch_unwind(evaluator)
start_pure_trial ==
    /\ pc = "start"
    /\ Trials[trial].strategy = "pure"
    /\ call' = Trials[trial]
    /\ stack_info' = <<>>
    /\ s' = IF Trials[trial].kind = "string" THEN <<>> ELSE s
    /\ arg' = Trials[trial].depth
    /\ frames' = <<>>
    /\ result' = "None"
    /\ pc' = "call"
    /\ UNCHANGED <<entry, n, probe, stack_size, drop_cost, trial, current, iter, heap, fact, out,
                   summary, output>>

\* a boxed trial: catch_unwind(builder)
start_boxed_trial ==
    /\ pc = "start"
    /\ Trials[trial].strategy = "boxed"
    /\ call' = Trials[trial]
    /\ result' = "None"
    /\ pc' = "build_entry"
    /\ UNCHANGED <<entry, n, probe, stack_size, drop_cost, trial, current, iter, heap, fact, frames,
                   arg, stack_info, s, out, summary, output>>

\* if let Ok(fact) = boxed { fresh samples (and buffer), catch_unwind(evaluator) }
\* else { println!("...: overflow while creating!") }
start_boxed_eval ==
    /\ pc = "built"
    /\ IF result = "Ok"
       THEN /\ stack_info' = <<>>
            /\ out' = IF call.kind = "string" THEN <<>> ELSE out
            /\ arg' = 0
            /\ frames' = <<>>
            /\ output' = IF entry = "main" THEN Append(output, Line("created"))
                         ELSE output
            /\ pc' = "call"
            /\ UNCHANGED <<trial, heap, fact>>
       ELSE /\ output' = Append(output, Line("overflow_creating"))
            /\ trial' = trial + 1
            /\ pc' = IF trial = Len(Trials) THEN "done" ELSE "start"
            /\ heap' = <<>>
            /\ fact' = NoNode
            /\ UNCHANGED <<stack_info, out, arg, frames>>
    /\ result' = "None"
    /\ UNCHANGED <<entry, n, probe, stack_size, drop_cost, call, current, iter, s, summary>>

\* the summary line of a trial whose analysis gave Some((used, per_level))
Reported(sum) ==
    IF sum.some
    THEN Append(output, [trial |-> trial, label |-> call.label, outcome |-> "summary",
                         used |-> sum.used, per_level |-> sum.per_level])
    ELSE output

\* if result.is_ok() { if let Some(..) = analyze_stack(..) { println!(..) } }
\* else { println!("...: stack overflow!") }
report ==
    /\ pc = "caught"
    /\ IF result = "Ok"
       THEN /\ summary' = analyze_stack(stack_info)
            /\ output' = Reported(analyze_stack(stack_info))
       ELSE /\ summary' = summary
            /\ output' = Append(output, Line("overflow_evaluating"))
    /\ IF call.strategy = "boxed"
       THEN pc' = "drop" /\ trial' = trial /\ arg' = 0
       ELSE /\ trial' = trial + 1
            /\ pc' = IF trial = Len(Trials) THEN "done" ELSE "start"
            /\ arg' = arg
    /\ UNCHANGED <<entry, n, probe, stack_size, drop_cost, call, current, iter, heap, fact,
                   frames, stack_info, s, out, result>>

(***************************************************************************)
(* Dropping a chain.  Neither enum has a Drop implementation, so the chain *)
(* is released by the compiler's drop glue: dropping a Next node drops its *)
(* payload and then its Box, which drops the node the Box owns before the  *)
(* allocation is freed.  Each node of the chain is one nested call.  The   *)
(* bytes one level takes are a property of the build (drop_cost).          *)
(***************************************************************************)
DropHasStack == (Len(frames) + 1) * drop_cost <= stack_size

\* the chain goes out of scope (run_one_case) or is dropped (main): the drop
\* glue is entered for the node arg, and for a Next node goes on to the node
\* its Box owns
drop_in_place ==
    /\ pc = "drop"
    /\ DropHasStack
    /\ frames' = Append(frames, arg)
    /\ IF Deref(arg).tag = "Next"
       THEN arg' = Deref(arg).rest /\ pc' = "drop"
       ELSE arg' = arg /\ pc' = "drop_ret"
    /\ UNCHANGED <<entry, n, probe, stack_size, drop_cost, trial, call, current, iter, heap,
                   fact, stack_info, s, out, result, summary, output>>

\* the drop glue of a node returns: its caller frees the Box that held the
\* node; the return from the head node ends the trial
drop_return ==
    /\ pc = "drop_ret"
    /\ frames' = SubSeq(frames, 1, Len(frames) - 1)
    /\ IF Len(frames) = 1
       THEN /\ heap' = <<>>
            /\ fact' = NoNode
            /\ trial' = trial + 1
            /\ pc' = IF trial = Len(Trials) THEN "done" ELSE "start"
       ELSE /\ heap' = [heap EXCEPT ![frames[Len(frames)]] = NoNode]
            /\ fact' = fact
            /\ trial' = trial
            /\ pc' = "drop_ret"
    /\ UNCHANGED <<entry, n, probe, stack_size, drop_cost, call, current, iter, arg,
                   stack_info, s, out, result, summary, output>>

\* the next level of the drop glue does not fit the stack: the process is
\* aborted
drop_overflow ==
    /\ pc = "drop"
    /\ ~DropHasStack
    /\ pc' = "aborted"
    /\ UNCHANGED <<entry, n, probe, stack_size, drop_cost, trial, call, current, iter, heap,
                   fact, frames, arg, stack_info, s, out, result, summary, output>>

StackSizes == {StackSize, StackSize + StackStep, StackSize + 2 * StackStep}

DropCosts == {DropCost, DropCost + DropCostStep}

Depths == (0..MaxDepth) \cup (U8Modulus..(U8Modulus + MaxWrap))

NoCall == Trial("none", "u64", "pure", 0)

Init ==
    /\ \/ entry = "run_one_case" /\ n \in Depths
       \/ entry = "main" /\ n = 0
    /\ probe \in BOOLEAN
    /\ stack_size \in StackSizes
    /\ drop_cost \in DropCosts
    /\ trial = 1
    /\ pc = "start"
    /\ call = NoCall
    /\ current = NoNode
    /\ iter = RangeInclusive(1, 0, FALSE)
    /\ heap = <<>>
    /\ fact = NoNode
    /\ frames = <<>>
    /\ arg = 0
    /\ stack_info = <<>>
    /\ s = <<>>
    /\ out = <<>>
    /\ result = "None"
    /\ summary = None
    /\ output = <<>>

Next ==
    \/ start_pure_trial
    \/ start_boxed_trial
    \/ make_boxed_entry
    \/ make_boxed_loop
    \/ make_boxed_return
    \/ start_boxed_eval
    \/ simple_factorial_tracked
    \/ simple_string_tracked
    \/ eval_boxed_fact_tracked
    \/ eval_boxed_string_tracked
    \/ eval_return
    \/ stack_overflow
    \/ report
    \/ drop_in_place
    \/ drop_return
    \/ drop_overflow

Spec == Init /\ [][Next]_vars

\* the program is one thread that keeps running until it exits or is aborted
FairSpec == Spec /\ WF_vars(Next)

(***************************************************************************)
(* SpecBuild: one call of a builder.                                       *)
(***************************************************************************)
Kinds == {"u8", "u64", "u128", "string"}

BuildArgs(kind) == (0..MaxBuild) \cup (IF kind = "u8" THEN {U8Max} ELSE {})

InitBuild ==
    /\ entry = "builder"
    /\ n = 0
    /\ probe = TRUE
    /\ stack_size = StackSize
    /\ drop_cost = DropCost
    /\ trial = 1
    /\ pc = "build_entry"
    /\ \E kind \in Kinds : \E d \in BuildArgs(kind) :
          call = Trial("build", kind, "boxed", d)
    /\ current = NoNode
    /\ iter = RangeInclusive(1, 0, FALSE)
    /\ heap = <<>>
    /\ fact = NoNode
    /\ frames = <<>>
    /\ arg = 0
    /\ stack_info = <<>>
    /\ s = <<>>
    /\ out = <<>>
    /\ result = "None"
    /\ summary = None
    /\ output = <<>>

NextBuild == make_boxed_entry \/ make_boxed_loop \/ make_boxed_return

SpecBuild == InitBuild /\ [][NextBuild]_vars

(***************************************************************************)
(* SpecAnalyze: one call of analyze_stack.                                 *)
(***************************************************************************)
SampleSeqs == UNION {[1..k -> 0..MaxReading] : k \in 0..MaxSamples}

analyze_call ==
    /\ pc = "analyze"
    /\ summary' = analyze_stack(stack_info)
    /\ pc' = "analyzed"
    /\ UNCHANGED <<entry, n, probe, stack_size, drop_cost, trial, call, current, iter, heap, fact,
                   frames, arg, stack_info, s, out, result, output>>

InitAnalyze ==
    /\ entry = "analyzer"
    /\ n = 0
    /\ probe = TRUE
    /\ stack_size = StackSize
    /\ drop_cost = DropCost
    /\ trial = 1
    /\ pc = "analyze"
    /\ call = NoCall
    /\ current = NoNode
    /\ iter = RangeInclusive(1, 0, FALSE)
    /\ heap = <<>>
    /\ fact = NoNode
    /\ frames = <<>>
    /\ arg = 0
    /\ stack_info \in SampleSeqs
    /\ s = <<>>
    /\ out = <<>>
    /\ result = "None"
    /\ summary = None
    /\ output = <<>>

NextAnalyze == analyze_call

SpecAnalyze == InitAnalyze /\ [][NextAnalyze]_vars

(***************************************************************************)
(* Properties of the builders (SpecBuild).                                 *)
(***************************************************************************)
Built == pc = "built"

\* n, n-1, ..., 1 followed by last
Countdown(d, last) == [k \in 1..(d + 1) |-> IF k <= d THEN d + 1 - k ELSE last]

\* C1 (as stated): for the integer kinds and n >= 1 the payloads of the built
\* chain, read from the head to the Done node, are n, n-1, ..., 1, 0.
C1_PayloadsCountDownToZero ==
    (Built /\ call.kind # "string" /\ call.depth >= 1)
        => ChainPayloads = Countdown(call.depth, 0)

\* C1 (amended): for the integer kinds and n >= 1 the payloads of the built
\* chain, read from the head to the Done node, are n, n-1, ..., 1 on the Next
\* nodes followed by 1 on the Done node; the head payload is n.
C1_PayloadsCountDownToOne ==
    (Built /\ call.kind # "string" /\ call.depth >= 1)
        => /\ ChainPayloads = Countdown(call.depth, 1)
           /\ fact.tag = "Next"
           /\ fact.payload = call.depth

C1_Witness ==
    /\ Built
    /\ call.kind = "u8"
    /\ call.depth = 5
    /\ ChainPayloads = <<5, 4, 3, 2, 1, 1>>

\* the text of label d written out digit by digit (d < 1000)
LabelText(d) ==
    (IF d >= 100 THEN <<Digits[(d \div 100) + 1]>> ELSE <<>>)
    \o (IF d >= 10 THEN <<Digits[((d \div 10) % 10) + 1]>> ELSE <<>>)
    \o <<Digits[(d % 10) + 1], "-">>

\* C2: for n >= 1 the texts of the chain make_boxed_string(n) builds, read
\* from the head to the Done node, are the labels of n, n-1, ..., 1 in that
\* order, each followed by '-', and the Done node's text is "0-".
C2_StringChainCountsDown ==
    (Built /\ call.kind = "string" /\ call.depth >= 1)
        => ChainPayloads = [k \in 1..(call.depth + 1) |-> LabelText(call.depth + 1 - k)]

\* the references held by the Next nodes of the built chain and of the heap
RestOf(a) == IF a = 0 THEN fact.rest ELSE heap[a].rest

NextCells == {a \in 0..Len(heap) : Deref(a).tag = "Next"}

\* C3: for every builder and every n of its argument type (255 included for
\* the narrow type) the loop ends after exactly n iterations, and the chain
\* returned has n + 1 nodes: n Next nodes followed by one Done node at the
\* tail, every allocation is on the chain, no node is referenced twice and
\* the links never lead back (no cycle).
C3_ChainShape ==
    /\ pc = "build_loop" =>
          /\ Len(heap) <= call.depth
          /\ RangeNext(iter).some <=> Len(heap) < call.depth
    /\ Built =>
          /\ Len(heap) = call.depth
          /\ ChainLen = call.depth + 1
          /\ \A k \in 1..call.depth : Deref(Walk(0, k - 1)).tag = "Next"
          /\ Deref(Walk(0, call.depth)).tag = "Done"
          /\ \A a, b \in NextCells : RestOf(a) = RestOf(b) => a = b
          /\ \A a \in NextCells :
                RestOf(a) \in 1..Len(heap) /\ (a # 0 => RestOf(a) < a)

C3_Witness ==
    /\ Built
    /\ call.kind = "u8"
    /\ call.depth = U8Max
    /\ ChainLen = U8Modulus

\* C11: a builder never calls itself: while it builds, whatever n and whatever
\* the payload kind, the only active call of the builder is the one that was
\* entered, and none is left once it has returned.
C11_BuilderIsIterative ==
    /\ pc = "build_loop" => frames = <<call.depth>>
    /\ Built => frames = <<>>

\* the builder for the narrow kind has wrapped U8Max nodes in its one call
C11_Witness ==
    /\ pc = "build_loop"
    /\ call.kind = "u8" /\ call.depth = U8Max
    /\ Len(heap) = U8Max
    /\ ~RangeNext(iter).some
    /\ Len(frames) = 1

(***************************************************************************)
(* Properties of the driver (Spec) and of analyze_stack (SpecAnalyze).     *)
(***************************************************************************)
\* the evaluator of the current trial has returned to its catch_unwind
Caught == pc = "caught"

\* the last trial was analysed and has ended: call, stack_info and summary
\* are still those of that trial
Analysed == pc \in {"drop", "drop_ret"} \/ (pc \in {"start", "done"} /\ trial > 1)

LastTrial == IF pc \in {"drop", "drop_ret"} THEN trial ELSE trial - 1

\* the outcome lines printed for trial k (a summary or an overflow report)
OutcomeLines(k) ==
    {i \in 1..Len(output) : output[i].trial = k /\ output[i].outcome # "created"}

\* C4: with the probe available, every trial of run_one_case(n) that completes
\* without a fault has collected exactly n + 1 samples.
C4_SamplesAreDepthPlusOne ==
    (entry = "run_one_case" /\ probe /\ Caught) => Len(stack_info) = n + 1

\* C5: analyze_stack returns None if and only if it is given fewer than two
\* samples; a pure integer walk at depth 0 yields exactly one sample and is
\* analysed to None.
C5_InsufficientIffFewerThanTwo ==
    Analysed =>
        /\ (~summary.some) <=> (Len(stack_info) < 2)
        /\ (probe /\ call.strategy = "pure" /\ call.kind # "string" /\ call.depth = 0)
              => (Len(stack_info) = 1 /\ ~summary.some)

C5_Witness ==
    /\ Analysed
    /\ probe
    /\ call = Trial("simple(u64)", "u64", "pure", 0)
    /\ Len(stack_info) = 1
    /\ ~summary.some

\* the smallest reading of a sequence, as a property and not as a fold
Smallest(samples) ==
    CHOOSE m \in {samples[k] : k \in 1..Len(samples)} :
        \A k \in 1..Len(samples) : m <= samples[k]

\* C6: for every sample sequence of two or more readings, monotonic or not,
\* total_used is the first reading minus the smallest reading (not negative,
\* and at least first minus last) and per_level is total_used divided by the
\* number of samples.
C6_TotalAndPerLevel ==
    (pc = "analyzed" /\ Len(stack_info) >= 2) =>
        /\ summary.some
        /\ summary.used = stack_info[1] - Smallest(stack_info)
        /\ summary.used >= 0
        /\ summary.used >= stack_info[1] - stack_info[Len(stack_info)]
        /\ summary.per_level.den > 0
        /\ summary.per_level.num * Len(stack_info) = summary.used * summary.per_level.den

C6_Witness ==
    /\ pc = "analyzed"
    /\ stack_info = <<2, 0, 3>>
    /\ summary.some
    /\ summary.used = 2
    /\ summary.per_level = [num |-> 2, den |-> 3]

\* the labels hi, hi-1, ..., lo, each followed by '-', in one text
RECURSIVE LabelsDown(_, _)
LabelsDown(hi, lo) ==
    IF hi <= lo THEN LabelText(lo)
    ELSE LET mid == (hi + lo) \div 2
         IN  LabelsDown(hi, mid + 1) \o LabelsDown(mid, lo)

\* C7: a string walk at depth n, pure or boxed, leaves its buffer equal to the
\* labels n, n-1, ..., 1, 0, each followed by '-'; the boxed walk's buffer
\* equals the pure walk's buffer at the same depth.
C7_StringBuffersCountDown ==
    (Caught /\ call.kind = "string") =>
        IF call.strategy = "pure"
        THEN s = LabelsDown(call.depth, 0)
        ELSE out = LabelsDown(call.depth, 0) /\ out = s

\* C8: a stack exhaustion in one trial does not end the run: whenever the run
\* has stopped, every trial of the sequence has run, and a trial whose call
\* did not fit the stack has an overflow report of its own.
C8_FaultDoesNotEndTheRun ==
    /\ pc \in {"done", "aborted"} => trial = Len(Trials) + 1
    /\ pc = "aborted" =>
          \E i \in OutcomeLines(trial) :
              output[i].outcome \in {"overflow_creating", "overflow_evaluating"}

\* C9: in every boxed trial the evaluator runs only on a chain the builder
\* returned, nothing is reported before the evaluator has returned, a fault of
\* the evaluation is reported as an overflow during evaluation, and a trial
\* that has ended has emitted exactly one outcome.
C9_BoxedTrialStepsInOrder ==
    call.strategy = "boxed" =>
        /\ pc \in {"call", "ret", "caught", "drop", "drop_ret"}
              => fact.tag \in {"Next", "Done"}
        /\ pc \in {"build_entry", "build_loop", "built", "call", "ret", "caught"}
              => OutcomeLines(trial) = {}
        /\ pc = "aborted" =>
              \E i \in OutcomeLines(trial) : output[i].outcome = "overflow_evaluating"
        /\ pc \in {"drop", "drop_ret"} => Cardinality(OutcomeLines(trial)) = 1

\* C10: with the probe unavailable a trial that ends has no samples, is
\* analysed to None, and is reported by a line of its own that is not an
\* overflow report.
C10_UnavailableProbeIsReported ==
    (~probe /\ Analysed) =>
        /\ stack_info = <<>>
        /\ ~summary.some
        /\ \E i \in OutcomeLines(LastTrial) :
              output[i].outcome \notin {"overflow_creating", "overflow_evaluating"}

(***************************************************************************)
(* Properties of the evaluators (FairSpec).                                *)
(***************************************************************************)
\* the call about to be made is the base case: counter 0 or the Done node
AtBase == IF call.strategy = "pure" THEN arg = 0 ELSE Deref(arg).tag = "Done"

\* one call of an evaluator has run up to its recursive call or its end
EvaluatorCalled == pc = "call" /\ pc' \in {"call", "ret"}

\* the sample sequence grew by at most one entry, at its end
AppendedAtMostOne ==
    \/ stack_info' = stack_info
    \/ /\ Len(stack_info') = Len(stack_info) + 1
       /\ SubSeq(stack_info', 1, Len(stack_info)) = stack_info

EvaluatorStep ==
    EvaluatorCalled =>
        /\ frames' = Append(frames, arg)
        /\ AppendedAtMostOne
        /\ probe => Len(stack_info') = Len(frames')
        /\ AtBase <=> pc' = "ret"
        /\ pc' = "call" =>
              IF call.strategy = "pure"
              THEN arg' = arg - 1 /\ arg' >= 0
              ELSE arg' = Deref(arg).rest /\ Deref(arg').tag \in {"Next", "Done"}
        /\ Len(frames') <= call.depth + 1

\* C12: every evaluator call appends at most one sample, at the end of the
\* sequence and before it recurses, recurses once unless it is at counter 0 or
\* at the Done node, never takes the counter below 0 and never nests deeper
\* than depth + 1 calls; a run that returns has sampled every level, the base
\* case included, exactly once; and every run that is started ends.
C12_EvaluatorTerminates ==
    /\ [][EvaluatorStep]_vars
    /\ []((pc \in {"call", "ret"} /\ ~probe) => stack_info = <<>>)
    /\ []((pc = "ret" /\ probe) => Len(stack_info) = call.depth + 1)
    /\ []((Caught /\ probe) => Len(stack_info) = call.depth + 1)
    /\ (pc = "call") ~> (pc \in {"caught", "aborted"})

\* a chain of strings has been walked to its Done node and every call returned
C12_Witness ==
    /\ Caught
    /\ probe
    /\ call.strategy = "boxed" /\ call.kind = "string"
    /\ call.depth >= 2
    /\ Len(stack_info) = call.depth + 1
    /\ Len(out) > call.depth

(***************************************************************************)
(* Properties of the teardown (Spec).                                      *)
(***************************************************************************)
\* the chain of the current trial is being dropped
Dropping == pc \in {"drop", "drop_ret"}

\* the process was aborted while a chain that had been walked was dropped
DropAborted == pc = "aborted" /\ result = "Ok"

\* C13: a chain is released by a loop: while it is dropped at most one call
\* of the teardown is active, whatever the length of the chain, and the drop
\* of a chain that was built and walked never exhausts the stack.
C13_TeardownIsIterative ==
    /\ Dropping => Len(frames) <= 1
    /\ ~DropAborted

====
